---- MODULE Spec2Model ----
(***************************************************************************)
(* importx: loader selection and dispatch of importTs (src/src/index.ts).  *)
(*                                                                         *)
(* One JavaScript thread runs asynchronous calls; a call is atomic between *)
(* its suspension points, which are the native import of the probe fixture *)
(* (line 98) and the engine's own promise (lines 189, 201, 212, 229).      *)
(* parentURL is taken to be a valid file URL, so the path helpers of       *)
(* node:url and node:path do not throw.                                    *)
(***************************************************************************)
EXTENDS Naturals, Sequences, FiniteSets

\* ------------------------------------------------------------ bounds
\* Number of call slots that may be in flight at once (SpecConc).
MaxCalls == 2
\* Highest host major version enumerated.
MaxMajor == 21

\* ------------------------------------------------------------ values
Unset == "undefined"

Loaders == {"native", "tsx", "jiti", "bundle-require"}

\* options.loader as written by the caller: absent, a falsy string, 'auto',
\* one of the four loaders, or a name outside the enumeration.
LoaderInputs == {Unset, "", "auto", "foo"} \cup Loaders

\* options.cache as written by the caller.
CacheInputs == {Unset, "true", "false", "null"}

\* options.ignoreImportxWarning as written by the caller.
IgnoreInputs == {Unset, "true", "false"}

\* Paths, as sequences of characters.
Paths ==
  { <<".", "/", "m", ".", "t", "s">>,
    <<".", "/", "m", ".", "c", "t", "s", "x">>,
    <<".", "/", "m", ".", "j", "s">>,
    <<"m", "t", "s">> }

\* What importing the probe fixture yields on this host: its default export
\* is the sentinel, it is something else, or the import throws.
FixtureOutcomes == {"dummy", "other", "throws"}

Majors == 17..MaxMajor
Minors == {7, 8, 18, 19}

\* process.versions.node split into numbers; <<>> when there is no process.
NoVersion == <<>>
Versions == {NoVersion} \cup {<<ma, mi>> : ma \in Majors, mi \in Minors}

\* What an engine's promise settles to: a module, or the engine's own error.
EngineErrors == {"EngineError"}
EngineOutcomes == {"module"} \cup EngineErrors

Calls == 1..MaxCalls

\* ------------------------------------------------------------ state
VARIABLES
  _isNativeTsImportSupported, \* line 89: the memoized probe result
  nodeVersionNumbers,         \* line 108
  fixture,                    \* the host's answer to import('../dummy.mts')
  importCount,                \* how many times line 98 ran import()
  moduleInfo,                 \* side table read by getModuleInfo
  calls                       \* the calls in flight, by slot

vars == <<_isNativeTsImportSupported, nodeVersionNumbers, fixture,
          importCount, moduleInfo, calls>>

IdleCall ==
  [ pc |-> "idle", kind |-> "", path |-> <<>>, loaderIn |-> Unset,
    cacheIn |-> Unset, ignoreIn |-> Unset, cache |-> "", ignore |-> FALSE,
    loader |-> "", probed |-> FALSE, imported |-> FALSE, supported |-> Unset,
    engines |-> <<>>, jitiCache |-> "", error |-> "", errLoader |-> "",
    errSide |-> "", engineError |-> "", value |-> "" ]

\* ------------------------------------------------------------ pure code
\* Suffix of s of length n (s itself when shorter).
Tail_(s, n) == IF Len(s) <= n THEN s ELSE SubSeq(s, Len(s) - n + 1, Len(s))

\* /\.[mc]?tsx?$/ anchored at the end: the pattern matches a suffix of
\* length 3 (.ts), 4 (.mts .cts .tsx) or 5 (.mtsx .ctsx).
isTypeScriptFile(path) ==
  \/ (Len(path) >= 3 /\ Tail_(path, 3) = <<".", "t", "s">>)
  \/ (Len(path) >= 4 /\ Tail_(path, 4) \in
        { <<".", "m", "t", "s">>, <<".", "c", "t", "s">>,
          <<".", "t", "s", "x">> })
  \/ (Len(path) >= 5 /\ Tail_(path, 5) \in
        { <<".", "m", "t", "s", "x">>, <<".", "c", "t", "s", "x">> })

\* Line 173: cache = true applies when the property is undefined.
DefaultCache_Null(cacheIn) == IF cacheIn = Unset THEN "null" ELSE cacheIn

DefaultCache(cacheIn) == IF cacheIn = Unset THEN "true" ELSE cacheIn

\* Line 174: ignoreImportxWarning = false.
DefaultIgnore(ignoreIn) == ignoreIn = "true"

\* Line 178: options.loader || 'auto' (every falsy value becomes 'auto').
DefaultLoader(loaderIn) == IF loaderIn \in {Unset, ""} THEN "auto" ELSE loaderIn

\* Lines 126-144.
tsxOrJiti_Off(v) ==
  IF v = NoVersion THEN "tsx"
  ELSE IF \/ v[1] < 18
          \/ (v[1] = 18 /\ v[2] <= 19)
          \/ (v[1] = 20 /\ v[2] < 8)
       THEN "jiti"
       ELSE "tsx"

tsxOrJiti(v) ==
  IF v = NoVersion THEN "tsx"
  ELSE IF \/ v[1] < 18
          \/ (v[1] = 18 /\ v[2] < 19)
          \/ (v[1] = 20 /\ v[2] < 8)
       THEN "jiti"
       ELSE "tsx"

\* Line 117: the probe is awaited only when cache is not false and the file
\* is a TypeScript file (|| short-circuits).
NeedsProbe(cache, isTsFile) == cache # "false" /\ isTsFile

\* Lines 113-124; supported is the probe's answer where it was asked.
detectLoader_NoCacheCheck(cache, isTsFile, supported, v) ==
  IF ~isTsFile \/ supported = "true" THEN "native"
  ELSE IF cache = "true" THEN "jiti"
  ELSE tsxOrJiti(v)

detectLoader(cache, isTsFile, supported, v) ==
  IF cache = "false" THEN tsxOrJiti(v)
  ELSE IF ~isTsFile \/ supported = "true" THEN "native"
  ELSE IF cache = "true" THEN "jiti"
  ELSE tsxOrJiti(v)

\* Lines 95-104: what the settled fixture import stores in the memo.
ProbeOutcome_NoCatch(f) ==
  IF f = "throws" THEN Unset ELSE IF f = "dummy" THEN "true" ELSE "false"

ProbeOutcome(f) == IF f = "dummy" THEN "true" ELSE "false"

\* Line 95: the fixture is imported only while the memo is undefined.
ProbeNeedsImport_Always(memo) == TRUE

ProbeNeedsImport(memo) == memo = Unset

\* Lines 184-240: the switch. optCache is options.cache as written (line 215
\* reads it, not the defaulted local).
Thrown(kind, named, side) ==
  [ error |-> kind, errLoader |-> named, errSide |-> side,
    engines |-> <<>>, jitiCache |-> "" ]

Invoked(engine, flags) ==
  [ error |-> "", errLoader |-> "", errSide |-> "",
    engines |-> <<engine>>, jitiCache |-> flags ]

Dispatch_NoValidation(loader, cache, ignore, optCache) ==
  IF loader \in Loaders
  THEN Invoked(loader, IF loader = "jiti" /\ optCache = "false"
                       THEN "cacheFalse" ELSE "none")
  ELSE Thrown("UnknownLoader", loader, "")

Dispatch(loader, cache, ignore, optCache) ==
  CASE loader = "native" ->
         IF cache = "false" /\ ~ignore
         THEN Thrown("CacheIncompatible", "native", "false")
         ELSE Invoked("native", "none")
    [] loader = "tsx" ->
         IF cache = "true" /\ ~ignore
         THEN Thrown("CacheIncompatible", "tsx", "true")
         ELSE Invoked("tsx", "none")
    [] loader = "jiti" ->
         Invoked("jiti", IF optCache = "false" THEN "cacheFalse" ELSE "none")
    [] loader = "bundle-require" ->
         IF cache = "true" /\ ~ignore
         THEN Thrown("CacheIncompatible", "native", "true")
         ELSE Invoked("bundle-require", "none")
    [] OTHER -> Thrown("UnknownLoader", loader, "")

\* The call record once its loader is known: rejected by the switch, or
\* waiting for the engine.
Dispatched(call, loader) ==
  LET d == Dispatch(loader, call.cache, call.ignore, call.cacheIn)
  IN [ call EXCEPT
         !.loader = loader,
         !.pc = IF d.error # "" THEN "rejected" ELSE "engine",
         !.error = d.error, !.errLoader = d.errLoader, !.errSide = d.errSide,
         !.engines = d.engines, !.jitiCache = d.jitiCache ]

\* Lines 189, 201-208, 212-222, 229-235: the engine's promise is returned as
\* it is, so the call settles as the engine does.
Settled_Fallback(call, out) ==
  IF out \in EngineErrors
  THEN [ call EXCEPT !.engines = Append(call.engines, "jiti"),
                     !.engineError = out ]
  ELSE [ call EXCEPT !.pc = "resolved", !.value = out ]

Settled(call, out) ==
  IF out \in EngineErrors
  THEN [ call EXCEPT !.pc = "rejected", !.error = out, !.engineError = out ]
  ELSE [ call EXCEPT !.pc = "resolved", !.value = out ]

\* getModuleInfo(mod): lookup in the side table.
getModuleInfo(mod) ==
  IF mod \in DOMAIN moduleInfo THEN moduleInfo[mod] ELSE Unset

\* ------------------------------------------------------------ actions
Init ==
  /\ _isNativeTsImportSupported = Unset
  /\ nodeVersionNumbers \in Versions
  /\ fixture \in FixtureOutcomes
  /\ importCount = 0
  /\ moduleInfo = <<>>
  /\ calls = [c \in Calls |-> IdleCall]

\* importTs(path, options) up to its first suspension point (lines 166-240).
ImportTsCall(c, path, loaderIn, cacheIn, ignoreIn) ==
  /\ calls[c].pc = "idle"
  /\ LET cache == DefaultCache(cacheIn)
         isTs == isTypeScriptFile(path)
         begun == [ IdleCall EXCEPT
                      !.kind = "importTs", !.path = path,
                      !.loaderIn = loaderIn, !.cacheIn = cacheIn,
                      !.ignoreIn = ignoreIn, !.cache = cache,
                      !.ignore = DefaultIgnore(ignoreIn) ]
     IN IF DefaultLoader(loaderIn) # "auto"
        THEN /\ calls' = [calls EXCEPT ![c] =
                            Dispatched(begun, DefaultLoader(loaderIn))]
             /\ UNCHANGED importCount
        ELSE IF ~NeedsProbe(cache, isTs)
        THEN /\ calls' = [calls EXCEPT ![c] =
                            Dispatched(begun, detectLoader(cache, isTs, Unset,
                                                           nodeVersionNumbers))]
             /\ UNCHANGED importCount
        ELSE IF ProbeNeedsImport(_isNativeTsImportSupported)
        THEN /\ calls' = [calls EXCEPT ![c] =
                            [begun EXCEPT !.pc = "probing", !.probed = TRUE,
                                          !.imported = TRUE]]
             /\ importCount' = importCount + 1
        ELSE /\ calls' = [calls EXCEPT ![c] =
                            Dispatched(
                              [begun EXCEPT
                                 !.probed = TRUE,
                                 !.supported = _isNativeTsImportSupported],
                              detectLoader(cache, isTs,
                                           _isNativeTsImportSupported,
                                           nodeVersionNumbers))]
             /\ UNCHANGED importCount
  /\ UNCHANGED <<_isNativeTsImportSupported, nodeVersionNumbers, fixture,
                 moduleInfo>>

\* A direct call of the exported isNativeTsImportSupported() (lines 94-106).
ProbeCall(c) ==
  /\ calls[c].pc = "idle"
  /\ IF ProbeNeedsImport(_isNativeTsImportSupported)
     THEN /\ calls' = [calls EXCEPT ![c] =
                         [IdleCall EXCEPT !.kind = "probe", !.pc = "probing",
                                          !.probed = TRUE, !.imported = TRUE]]
          /\ importCount' = importCount + 1
     ELSE /\ calls' = [calls EXCEPT ![c] =
                         [IdleCall EXCEPT
                            !.kind = "probe", !.pc = "resolved",
                            !.probed = TRUE,
                            !.supported = _isNativeTsImportSupported,
                            !.value = _isNativeTsImportSupported]]
          /\ UNCHANGED importCount
  /\ UNCHANGED <<_isNativeTsImportSupported, nodeVersionNumbers, fixture,
                 moduleInfo>>

\* The fixture import settles (lines 98-105); an importTs call goes on to
\* lines 117-124 and the switch.
ProbeSettle(c) ==
  /\ calls[c].pc = "probing"
  /\ _isNativeTsImportSupported' = ProbeOutcome(fixture)
  /\ LET ret == _isNativeTsImportSupported'
         call == [calls[c] EXCEPT !.supported = ret]
     IN calls' = [calls EXCEPT ![c] =
          IF call.kind = "probe"
          THEN [call EXCEPT !.pc = "resolved", !.value = ret]
          ELSE Dispatched(call,
                 detectLoader(call.cache, isTypeScriptFile(call.path), ret,
                              nodeVersionNumbers))]
  /\ UNCHANGED <<nodeVersionNumbers, fixture, importCount, moduleInfo>>

\* The engine's promise settles.
EngineSettle(c) ==
  /\ calls[c].pc = "engine"
  /\ \E out \in EngineOutcomes :
       calls' = [calls EXCEPT ![c] = Settled(calls[c], out)]
  /\ UNCHANGED <<_isNativeTsImportSupported, nodeVersionNumbers, fixture,
                 importCount, moduleInfo>>

\* The caller is done with a settled call; the slot serves the next call.
Return(c) ==
  /\ calls[c].pc \in {"resolved", "rejected"}
  /\ calls' = [calls EXCEPT ![c] = IdleCall]
  /\ UNCHANGED <<_isNativeTsImportSupported, nodeVersionNumbers, fixture,
                 importCount, moduleInfo>>

\* One caller issuing importTs calls one after another, every option.
Next ==
  \/ \E p \in Paths, l \in LoaderInputs, ch \in CacheInputs,
        ig \in IgnoreInputs : ImportTsCall(1, p, l, ch, ig)
  \/ ProbeSettle(1)
  \/ EngineSettle(1)
  \/ Return(1)

Spec == Init /\ [][Next]_vars

\* Calls started back to back: auto-mode importTs calls and direct probe
\* calls in flight together.
ConcPaths == { <<".", "/", "m", ".", "t", "s">>, <<".", "/", "m", ".", "j", "s">> }

InitConc ==
  /\ Init
  /\ nodeVersionNumbers \in {NoVersion, <<18, 18>>}

NextConc ==
  \E c \in Calls :
    \/ \E p \in ConcPaths, l \in {Unset, "auto"}, ch \in {Unset, "null"} :
         ImportTsCall(c, p, l, ch, Unset)
    \/ ProbeCall(c)
    \/ ProbeSettle(c)
    \/ EngineSettle(c)

SpecConc == InitConc /\ [][NextConc]_vars

\* ------------------------------------------------------------ claims
\* The capability matrix as the specification states it: native supports
\* only must-cache, tsx and bundle-require only must-not-cache, jiti both,
\* and indifferent is always satisfied.
Supports(s, c) ==
  \/ c = "null"
  \/ (c = "true" /\ s \in {"native", "jiti"})
  \/ (c = "false" /\ s \in {"tsx", "jiti", "bundle-require"})

\* The version gate as the specification states it: which hosts may run tsx.
Eligible(v) ==
  \/ v = NoVersion
  \/ (v # NoVersion /\ \/ v[1] = 19
                       \/ v[1] > 20
                       \/ (v[1] = 18 /\ v[2] >= 19)
                       \/ (v[1] = 20 /\ v[2] >= 8))

\* The reference decision procedure of auto-selection.
RefSelect(cache, transformable, supported, v) ==
  LET gate == IF Eligible(v) THEN "tsx" ELSE "jiti"
  IN IF cache = "false" THEN gate
     ELSE IF ~transformable \/ supported THEN "native"
     ELSE IF cache = "true" THEN "jiti"
     ELSE gate

ImportCalls == {c \in Calls : calls[c].kind = "importTs"}

\* The loader of a call is known: it is past the probe.
Decided(k) == k.pc \in {"engine", "resolved", "rejected"}

C3_AtMostOnce == importCount <= 1

\* C3 as amended: once a call of the probe has resolved and set the memo,
\* no later call imports the fixture; calls started before that each import
\* it.
C3_NoImportOnceMemoized ==
  [][_isNativeTsImportSupported # Unset => importCount' = importCount]_vars

C3_Witness ==
  /\ _isNativeTsImportSupported # Unset
  /\ importCount = 1
  /\ \E c \in Calls : calls[c].probed /\ ~calls[c].imported
                      /\ calls[c].pc = "resolved"

\* C4 as claimed: a requested loader name outside the enumeration and other
\* than 'auto' is rejected with the unknown-loader error, with no engine and
\* no probe invoked.
C4_UnknownRejected ==
  \A c \in ImportCalls :
    LET k == calls[c]
    IN (k.loaderIn \notin (Loaders \cup {"auto", Unset})) =>
         /\ k.pc = "rejected"
         /\ k.error = "UnknownLoader"
         /\ k.engines = <<>>
         /\ ~k.probed

C6_ErrorNamesLoader ==
  \A c \in ImportCalls :
    LET k == calls[c]
    IN (k.error = "CacheIncompatible") =>
         (k.errLoader = k.loader /\ k.errSide = k.cache)

\* C7: an auto-mode call (loader 'auto', or left out) is never rejected with CacheIncompatible; the
\* loader chosen supports the cache requirement and its engine is invoked.
C7_AutoNeverIncompatible ==
  \A c \in ImportCalls :
    LET k == calls[c]
        req == IF k.cacheIn = Unset THEN "true" ELSE k.cacheIn
    IN (k.loaderIn \in {"auto", Unset}) =>
         /\ k.error # "CacheIncompatible"
         /\ Decided(k) => (Supports(k.loader, req) /\ k.engines = <<k.loader>>)

C7_Witness ==
  \E c \in ImportCalls :
    /\ calls[c].loaderIn = "auto" /\ calls[c].cacheIn = "false"
    /\ calls[c].ignoreIn = "false"
    /\ ~isTypeScriptFile(calls[c].path)
    /\ calls[c].pc = "engine" /\ calls[c].loader \in {"tsx", "jiti"}

\* C8 as claimed: after a call resolves, getModuleInfo of the returned value
\* is a record naming the loader used, with timestampInit not later than
\* timestampLoad.
C8_ModuleInfoRecorded ==
  \A c \in ImportCalls :
    LET k == calls[c]
    IN (k.pc = "resolved") =>
         /\ getModuleInfo(k.value) # Unset
         /\ getModuleInfo(k.value).loader = k.loader
         /\ getModuleInfo(k.value).timestampInit
              <= getModuleInfo(k.value).timestampLoad

\* C9: a call invokes at most one engine, the one of the resolved loader;
\* when that engine fails the call rejects with the engine's error and no
\* other engine is invoked.
C9_OneEngineNoFallback ==
  \A c \in ImportCalls :
    LET k == calls[c]
    IN /\ Len(k.engines) <= 1
       /\ (k.engines # <<>>) => k.engines = <<k.loader>>
       /\ (k.engineError # "") =>
            /\ k.pc = "rejected"
            /\ k.error = k.engineError
            /\ k.engines = <<k.loader>>
       /\ (k.pc = "resolved") => (k.error = "" /\ k.engines = <<k.loader>>)

C9_Witness ==
  \E c \in ImportCalls :
    /\ calls[c].pc = "rejected" /\ calls[c].error = "EngineError"
    /\ calls[c].engines = <<"tsx">>

\* C10: the memo goes from unset to one boolean and keeps it, and every call
\* of the probe returns that boolean, the calls started before the first one
\* resolved included.
C10_ProbeReturnsMemo ==
  \A c \in Calls :
    (calls[c].probed /\ calls[c].pc \notin {"idle", "probing"}) =>
      /\ calls[c].supported \in {"true", "false"}
      /\ calls[c].supported = _isNativeTsImportSupported

C10_MemoStable ==
  /\ []C10_ProbeReturnsMemo
  /\ [][_isNativeTsImportSupported # Unset =>
          _isNativeTsImportSupported' = _isNativeTsImportSupported]_vars

\* Two calls that both imported the fixture have both returned.
C10_Witness ==
  \E c, d \in Calls :
    /\ c # d
    /\ calls[c].imported /\ calls[d].imported
    /\ calls[c].pc \notin {"idle", "probing"}
    /\ calls[d].pc \notin {"idle", "probing"}
    /\ calls[c].supported = calls[d].supported
    /\ importCount = 2

====
